---- MODULE Spec2Model ----
(***************************************************************************)
(* The YouTube terminal simulator of YOUTUBE.py: the interactive loop, the *)
(* CommandParser that dispatches a tokenised line, and the VideoPlayer it  *)
(* drives.                                                                  *)
(*                                                                          *)
(* A Python str is a sequence of one-character strings, so that str.upper  *)
(* and str.split are computed character by character.  What a print call   *)
(* writes is a record [text, args]: the literal text with a {} for every   *)
(* value interpolated into it, and those values in order.                   *)
(***************************************************************************)
EXTENDS Integers, Sequences, FiniteSets, TLC

VARIABLES videos, player, command, calls, raised, output, pc, log

vars == <<videos, player, command, calls, raised, output, pc, log>>

----------------------------------------------------------------------------
(* str *)

LowerAlphabet ==
    <<"a", "b", "c", "d", "e", "f", "g", "h", "i", "j", "k", "l", "m",
      "n", "o", "p", "q", "r", "s", "t", "u", "v", "w", "x", "y", "z">>

UpperAlphabet ==
    <<"A", "B", "C", "D", "E", "F", "G", "H", "I", "J", "K", "L", "M",
      "N", "O", "P", "Q", "R", "S", "T", "U", "V", "W", "X", "Y", "Z">>

Digits ==
    <<"0", "1", "2", "3", "4", "5", "6", "7", "8", "9">>

Whitespace ==
    {" ", "\t"}

\* the upper-case letter of each lower-case letter
UpperCase ==
    [c \in {LowerAlphabet[i] : i \in DOMAIN LowerAlphabet} |->
        UpperAlphabet[CHOOSE i \in DOMAIN LowerAlphabet : LowerAlphabet[i] = c]]

\* a str.upper that leaves every character as it is
UpperChar_unchanged(c) ==
    c

UpperChar(c) ==
    IF c \in DOMAIN UpperCase THEN UpperCase[c] ELSE c

\* str.upper()
upper(s) ==
    [i \in 1..Len(s) |-> UpperChar(s[i])]

RECURSIVE split_scan(_, _, _)
split_scan(rest, word, acc) ==
    IF rest = <<>>
    THEN IF word = <<>> THEN acc ELSE Append(acc, word)
    ELSE IF Head(rest) \in Whitespace
         THEN split_scan(Tail(rest), <<>>,
                         IF word = <<>> THEN acc ELSE Append(acc, word))
         ELSE split_scan(Tail(rest), Append(word, Head(rest)), acc)

\* str.split(): the maximal runs of non-whitespace characters, in order
split(s) ==
    split_scan(s, <<>>, <<>>)

RECURSIVE str(_)
\* str(n) of a natural number, as the f-string of number_of_videos formats it
str(n) ==
    IF n < 10 THEN <<Digits[n + 1]>>
    ELSE Append(str(n \div 10), Digits[(n % 10) + 1])

----------------------------------------------------------------------------
(* The command names execute_command compares command[0].upper() with, and *)
(* EXIT, which the loop compares the whole line with.                       *)

NUMBER_OF_VIDEOS ==
    <<"N", "U", "M", "B", "E", "R", "_", "O", "F", "_", "V", "I", "D", "E", "O", "S">>
SHOW_ALL_VIDEOS ==
    <<"S", "H", "O", "W", "_", "A", "L", "L", "_", "V", "I", "D", "E", "O", "S">>
PLAY ==
    <<"P", "L", "A", "Y">>
PLAY_RANDOM ==
    <<"P", "L", "A", "Y", "_", "R", "A", "N", "D", "O", "M">>
STOP ==
    <<"S", "T", "O", "P">>
PAUSE ==
    <<"P", "A", "U", "S", "E">>
CONTINUE ==
    <<"C", "O", "N", "T", "I", "N", "U", "E">>
SHOW_PLAYING ==
    <<"S", "H", "O", "W", "_", "P", "L", "A", "Y", "I", "N", "G">>
CREATE_PLAYLIST ==
    <<"C", "R", "E", "A", "T", "E", "_", "P", "L", "A", "Y", "L", "I", "S", "T">>
ADD_TO_PLAYLIST ==
    <<"A", "D", "D", "_", "T", "O", "_", "P", "L", "A", "Y", "L", "I", "S", "T">>
REMOVE_FROM_PLAYLIST ==
    <<"R", "E", "M", "O", "V", "E", "_", "F", "R", "O", "M", "_", "P", "L", "A", "Y", "L", "I", "S", "T">>
CLEAR_PLAYLIST ==
    <<"C", "L", "E", "A", "R", "_", "P", "L", "A", "Y", "L", "I", "S", "T">>
DELETE_PLAYLIST ==
    <<"D", "E", "L", "E", "T", "E", "_", "P", "L", "A", "Y", "L", "I", "S", "T">>
SHOW_PLAYLIST ==
    <<"S", "H", "O", "W", "_", "P", "L", "A", "Y", "L", "I", "S", "T">>
SHOW_ALL_PLAYLISTS ==
    <<"S", "H", "O", "W", "_", "A", "L", "L", "_", "P", "L", "A", "Y", "L", "I", "S", "T", "S">>
SEARCH_VIDEOS ==
    <<"S", "E", "A", "R", "C", "H", "_", "V", "I", "D", "E", "O", "S">>
SEARCH_VIDEOS_WITH_TAG ==
    <<"S", "E", "A", "R", "C", "H", "_", "V", "I", "D", "E", "O", "S", "_", "W", "I", "T", "H", "_", "T", "A", "G">>
FLAG_VIDEO ==
    <<"F", "L", "A", "G", "_", "V", "I", "D", "E", "O">>
ALLOW_VIDEO ==
    <<"A", "L", "L", "O", "W", "_", "V", "I", "D", "E", "O">>
HELP ==
    <<"H", "E", "L", "P">>
EXIT ==
    <<"E", "X", "I", "T">>

Cats ==
    <<"C", "a", "t", "s">>
Home_Tour ==
    <<"H", "o", "m", "e", " ", "T", "o", "u", "r">>
Arts_and_Crafts ==
    <<"A", "r", "t", "s", " ", "a", "n", "d", " ", "C", "r", "a", "f", "t", "s">>
Pranks ==
    <<"P", "r", "a", "n", "k", "s">>
Aircraft ==
    <<"A", "i", "r", "c", "r", "a", "f", "t">>

word_play ==
    <<"p", "l", "a", "y">>
word_Stop ==
    <<"S", "t", "o", "p">>
word_hElp ==
    <<"h", "E", "l", "p">>
word_add_to_playlist ==
    <<"a", "d", "d", "_", "t", "o", "_", "p", "l", "a", "y", "l", "i", "s", "t">>
word_flag_video ==
    <<"F", "l", "a", "g", "_", "V", "i", "d", "e", "o">>
word_exit ==
    <<"e", "x", "i", "t">>
word_DANCE ==
    <<"D", "A", "N", "C", "E">>
word_PLAYS ==
    <<"P", "L", "A", "Y", "S">>

----------------------------------------------------------------------------
(* VideoPlayer.  self is the set of <<attribute, value>> pairs of the      *)
(* instance other than _video_library, whose keys are the variable videos. *)
(* A method yields the instance after the call and the lines it printed.   *)

Line(text, args) ==
    [text |-> text, args |-> args]

SetAttr(self, name, value) ==
    {a \in self : a[1] # name} \cup {<<name, value>>}

GetAttr(self, name) ==
    (CHOOSE a \in self : a[1] = name)[2]

Returns(self, out) ==
    [self |-> self, out |-> out]

\* self.id1 = "Cats" ... self.id5 = "Aircraft"
assign_titles(self) ==
    SetAttr(SetAttr(SetAttr(SetAttr(SetAttr(self,
        "id1", Cats), "id2", Home_Tour), "id3", Arts_and_Crafts),
        "id4", Pranks), "id5", Aircraft)

number_of_videos(self, library) ==
    Returns(self, <<Line("{} videos in the library",
                         <<str(Cardinality(library))>>)>>)

show_all_videos(self) ==
    LET s == assign_titles(self)
    IN  Returns(s, <<Line("{} ID=1\n {} ID=2\n {} ID=3 \n {} ID4 \n {} ID=5",
                          <<GetAttr(s, "id1"), GetAttr(s, "id2"),
                            GetAttr(s, "id3"), GetAttr(s, "id4"),
                            GetAttr(s, "id5")>>)>>)

play_video(self, video_id) ==
    LET s == assign_titles(self)
        playing(attr) == <<Line("{} Video is Playing", <<GetAttr(s, attr)>>)>>
    IN  Returns(s,
            IF video_id = <<"1">> THEN playing("id1")
            ELSE IF video_id = <<"2">> THEN playing("id2")
            ELSE IF video_id = <<"3">> THEN playing("id3")
            ELSE IF video_id = <<"4">> THEN playing("id4")
            ELSE IF video_id = <<"5">> THEN playing("id5")
            ELSE <<>>)

stop_video(self) ==
    Returns(self, <<Line("Video Stopped", <<>>)>>)

play_random_video(self) ==
    Returns(self, <<Line("Shuffle is On", <<>>)>>)

pause_video(self) ==
    Returns(self, <<Line("Video Paused", <<>>)>>)

continue_video(self) ==
    Returns(self, <<Line("Video Continued", <<>>)>>)

show_playing(self) ==
    Returns(self, <<Line("Current show", <<>>)>>)

create_playlist(self, playlist_name) ==
    Returns(self, <<Line("Playlist created {}", <<playlist_name>>)>>)

add_to_playlist(self, playlist_name, video_id) ==
    Returns(self, <<Line("add_to_playlist needs implementation", <<>>)>>)

show_all_playlists(self) ==
    Returns(self, <<Line("show_all_playlists needs implementation", <<>>)>>)

show_playlist(self, playlist_name) ==
    Returns(self,
        IF playlist_name = <<"1">> THEN <<Line("Cats", <<>>)>>
        ELSE IF playlist_name = <<"2">> THEN <<Line("House Tours", <<>>)>>
        ELSE IF playlist_name = <<"3">> THEN <<Line("Arts and Crafts", <<>>)>>
        ELSE IF playlist_name = <<"4">> THEN <<Line("Pranks", <<>>)>>
        ELSE IF playlist_name = <<"5">> THEN <<Line("Aircraft", <<>>)>>
        ELSE <<>>)

remove_from_playlist(self, playlist_name, video_id) ==
    Returns(self, <<Line("remove_from_playlist needs implementation", <<>>)>>)

clear_playlist(self, playlist_name) ==
    Returns(self, <<Line("clears_playlist needs implementation", <<>>)>>)

delete_playlist(self, playlist_name) ==
    Returns(self, <<Line("deletes_playlist needs implementation", <<>>)>>)

search_videos(self, search_term) ==
    Returns(self, <<Line("search_videos needs implementation", <<>>)>>)

search_videos_tag(self, video_tag) ==
    Returns(self, <<Line("search_videos_tag needs implementation", <<>>)>>)

flag_video(self, video_id, flag_reason) ==
    Returns(self, <<Line("flag_video needs implementation", <<>>)>>)

allow_video(self, video_id) ==
    Returns(self, <<Line("allow_video needs implementation", <<>>)>>)

----------------------------------------------------------------------------
(* CommandParser.  execute_command yields: whether it raised               *)
(* CommandException and with what message, the player methods it called    *)
(* with their arguments, the player after the call and the lines printed.  *)
(* Python's command[k] is command[k + 1] here.                              *)

CommandException(self, message) ==
    [raised |-> TRUE, message |-> message, calls |-> <<>>,
     player |-> self, out |-> <<>>]

Called(method, args, r) ==
    [raised |-> FALSE, message |-> "",
     calls |-> <<[method |-> method, args |-> args]>>,
     player |-> r.self, out |-> r.out]

Printed(self, out) ==
    [raised |-> FALSE, message |-> "", calls |-> <<>>,
     player |-> self, out |-> out]

\* help_text, cut after its first line
help_text ==
    "\nAvailable commands:\n    NUMBER_OF_VIDEOS - Shows how many videos are in the library. ...\n"

_get_help(self) ==
    Printed(self, <<Line(help_text, <<>>)>>)

\* a final else that raises, as the empty command does
unrecognized_raises(self) ==
    CommandException(self,
        "Please enter a valid command, type HELP for a list of available commands.")

\* the final else of execute_command
unrecognized(self) ==
    Printed(self, <<Line("Please enter a valid command, type HELP for a list of available commands.", <<>>)>>)

\* a check that only rejects too few tokens
len_below(cmd, n) ==
    Len(cmd) < n

\* len(command) != n
len_differs(cmd, n) ==
    Len(cmd) # n

execute_command(self, library, cmd) ==
    IF cmd = <<>>
    THEN CommandException(self,
             "Please enter a valid command, type HELP for a list of available commands.")
    ELSE LET name == upper(cmd[1]) IN
    IF name = NUMBER_OF_VIDEOS
    THEN Called("number_of_videos", <<>>, number_of_videos(self, library))
    ELSE IF name = SHOW_ALL_VIDEOS
    THEN Called("show_all_videos", <<>>, show_all_videos(self))
    ELSE IF name = PLAY
    THEN IF len_differs(cmd, 2)
         THEN CommandException(self,
                  "Please enter PLAY command followed by video_id.")
         ELSE Called("play_video", <<cmd[2]>>, play_video(self, cmd[2]))
    ELSE IF name = PLAY_RANDOM
    THEN Called("play_random_video", <<>>, play_random_video(self))
    ELSE IF name = STOP
    THEN Called("stop_video", <<>>, stop_video(self))
    ELSE IF name = PAUSE
    THEN Called("pause_video", <<>>, pause_video(self))
    ELSE IF name = CONTINUE
    THEN Called("continue_video", <<>>, continue_video(self))
    ELSE IF name = SHOW_PLAYING
    THEN Called("show_playing", <<>>, show_playing(self))
    ELSE IF name = CREATE_PLAYLIST
    THEN IF len_differs(cmd, 2)
         THEN CommandException(self,
                  "Please enter CREATE_PLAYLIST command followed by a playlist name.")
         ELSE Called("create_playlist", <<cmd[2]>>,
                     create_playlist(self, cmd[2]))
    ELSE IF name = ADD_TO_PLAYLIST
    THEN IF len_differs(cmd, 3)
         THEN CommandException(self,
                  "Please enter ADD_TO_PLAYLIST command followed by a playlist name and video_id to add.")
         ELSE Called("add_to_playlist", <<cmd[2], cmd[3]>>,
                     add_to_playlist(self, cmd[2], cmd[3]))
    ELSE IF name = REMOVE_FROM_PLAYLIST
    THEN IF len_differs(cmd, 3)
         THEN CommandException(self,
                  "Please enter REMOVE_FROM_PLAYLIST command followed by a playlist name and video_id to remove.")
         ELSE Called("remove_from_playlist", <<cmd[2], cmd[3]>>,
                     remove_from_playlist(self, cmd[2], cmd[3]))
    ELSE IF name = CLEAR_PLAYLIST
    THEN IF len_differs(cmd, 2)
         THEN CommandException(self,
                  "Please enter CLEAR_PLAYLIST command followed by a playlist name.")
         ELSE Called("clear_playlist", <<cmd[2]>>,
                     clear_playlist(self, cmd[2]))
    ELSE IF name = DELETE_PLAYLIST
    THEN IF len_differs(cmd, 2)
         THEN CommandException(self,
                  "Please enter DELETE_PLAYLIST command followed by a playlist name.")
         ELSE Called("delete_playlist", <<cmd[2]>>,
                     delete_playlist(self, cmd[2]))
    ELSE IF name = SHOW_PLAYLIST
    THEN IF len_differs(cmd, 2)
         THEN CommandException(self,
                  "Please enter SHOW_PLAYLIST command followed by a playlist name.")
         ELSE Called("show_playlist", <<cmd[2]>>,
                     show_playlist(self, cmd[2]))
    ELSE IF name = SHOW_ALL_PLAYLISTS
    THEN Called("show_all_playlists", <<>>, show_all_playlists(self))
    ELSE IF name = SEARCH_VIDEOS
    THEN IF len_differs(cmd, 2)
         THEN CommandException(self,
                  "Please enter SEARCH_VIDEOS command followed by a search term.")
         ELSE Called("search_videos", <<cmd[2]>>,
                     search_videos(self, cmd[2]))
    ELSE IF name = SEARCH_VIDEOS_WITH_TAG
    THEN IF len_differs(cmd, 2)
         THEN CommandException(self,
                  "Please enter SEARCH_VIDEOS_WITH_TAG command followed by a video tag.")
         ELSE Called("search_videos_tag", <<cmd[2]>>,
                     search_videos_tag(self, cmd[2]))
    ELSE IF name = FLAG_VIDEO
    THEN IF Len(cmd) = 3
         THEN Called("flag_video", <<cmd[2], cmd[3]>>,
                     flag_video(self, cmd[2], cmd[3]))
         ELSE IF Len(cmd) = 2
         THEN Called("flag_video", <<cmd[2]>>,
                     flag_video(self, cmd[2], <<>>))
         ELSE CommandException(self,
                  "Please enter FLAG_VIDEO command followed by a video_id and an optional flag reason.")
    ELSE IF name = ALLOW_VIDEO
    THEN IF len_differs(cmd, 2)
         THEN CommandException(self,
                  "Please enter ALLOW_VIDEO command followed by a video_id.")
         ELSE Called("allow_video", <<cmd[2]>>, allow_video(self, cmd[2]))
    ELSE IF name = HELP
    THEN _get_help(self)
    ELSE unrecognized(self)

----------------------------------------------------------------------------
(* What the user may type at the prompt.                                    *)

MaxArgs == 3

MaxLog == 3

tok_1   == <<"1">>
tok_cat == <<"c", "a", "t">>
tok_Cat == <<"C", "a", "t">>

\* the video ids a videos.txt may hold
VideoIds ==
    {tok_1, tok_cat}

CommandNames ==
    {NUMBER_OF_VIDEOS, SHOW_ALL_VIDEOS, PLAY, PLAY_RANDOM, STOP, PAUSE,
     CONTINUE, SHOW_PLAYING, CREATE_PLAYLIST, ADD_TO_PLAYLIST,
     REMOVE_FROM_PLAYLIST, CLEAR_PLAYLIST, DELETE_PLAYLIST, SHOW_PLAYLIST,
     SHOW_ALL_PLAYLISTS, SEARCH_VIDEOS, SEARCH_VIDEOS_WITH_TAG, FLAG_VIDEO,
     ALLOW_VIDEO, HELP}

\* first words of a line: the names as execute_command spells them, some in
\* other letter case, and words that are no command of execute_command
FirstWords ==
    CommandNames
    \cup {word_play, word_Stop, word_hElp, word_add_to_playlist, word_flag_video}
    \cup {EXIT, word_exit, word_DANCE, word_PLAYS}

\* the words that may stand at position i after the first word
ArgsAt(i) ==
    IF i = 1 THEN {tok_1, tok_cat, tok_Cat} ELSE {tok_1}

ArgLists ==
    UNION {{a \in [1..n -> {tok_1, tok_cat, tok_Cat}] :
               \A i \in 1..n : a[i] \in ArgsAt(i)} : n \in 0..MaxArgs}

RECURSIVE join(_)
\* the words separated by single spaces
join(words) ==
    IF words = <<>> THEN <<>>
    ELSE IF Len(words) = 1 THEN words[1]
    ELSE words[1] \o <<" ">> \o join(Tail(words))

\* lines whose whitespace is not one space between words
OddLines ==
    {<<>>, <<" ">>, <<" ", "\t">>,
     <<" ">> \o STOP \o <<" ">>,
     <<" ">> \o EXIT,
     PLAY \o <<"\t", " ">> \o tok_1}

Lines ==
    {join(<<w>> \o a) : w \in FirstWords, a \in ArgLists} \cup OddLines

\* the lines of a session of well-formed commands on one video and one
\* playlist name in two letter cases
SessionLines ==
    {join(c) : c \in
        {<<PLAY, tok_1>>, <<PLAY, tok_cat>>, <<SHOW_PLAYING>>, <<STOP>>,
         <<PAUSE>>, <<CREATE_PLAYLIST, tok_cat>>, <<CREATE_PLAYLIST, tok_Cat>>,
         <<ADD_TO_PLAYLIST, tok_cat, tok_1>>,
         <<REMOVE_FROM_PLAYLIST, tok_cat, tok_1>>,
         <<DELETE_PLAYLIST, tok_cat>>, <<FLAG_VIDEO, tok_1>>,
         <<ALLOW_VIDEO, tok_1>>, <<EXIT>>}}

\* what the loop makes of each line: whether it is EXIT, and its words
Typed ==
    [line \in Lines |-> [exit |-> upper(line) = EXIT, words |-> split(line)]]

----------------------------------------------------------------------------
(* The interactive loop of __main__.                                        *)

Welcome ==
    "Hello and welcome to YouTube, what would you like to do?\n    Enter HELP for list of available commands or EXIT to terminate."

Goodbye ==
    "YouTube has now terminated its execution. Thank you and goodbye!"

Init ==
    /\ videos \in SUBSET VideoIds
    /\ player = {}
    /\ command = <<>>
    /\ calls = <<>>
    /\ raised = FALSE
    /\ output = <<Line(Welcome, <<>>)>>
    /\ pc = "input"
    /\ log = <<>>

\* command = input("YT> ") returns a line that is not EXIT: it is split for
\* execute_command.  calls, raised and output hold what happens from here
\* until the loop is back at input.
Input(line) ==
    /\ pc = "input"
    /\ ~Typed[line].exit
    /\ command' = Typed[line].words
    /\ calls' = <<>>
    /\ raised' = FALSE
    /\ output' = <<>>
    /\ pc' = "execute"
    /\ UNCHANGED <<videos, player, log>>

\* the try statement: execute_command, and print(e) if it raised
Try ==
    /\ pc = "execute"
    /\ \E r \in {execute_command(player, videos, command)} :
           /\ player' = r.player
           /\ calls' = r.calls
           /\ raised' = r.raised
           /\ output' = IF r.raised THEN <<Line(r.message, <<>>)>> ELSE r.out
    /\ pc' = "input"
    /\ UNCHANGED <<videos, command>>

Execute ==
    /\ Try
    /\ UNCHANGED log

\* the line is EXIT in any letter case: break, and say goodbye
Exit(line) ==
    /\ pc = "input"
    /\ Typed[line].exit
    /\ output' = <<Line(Goodbye, <<>>)>>
    /\ pc' = "terminated"
    /\ UNCHANGED <<videos, player, command, calls, raised, log>>

Next ==
    \/ \E line \in Lines : Input(line)
    \/ Execute
    \/ \E line \in Lines : Exit(line)

Spec ==
    Init /\ [][Next]_vars

----------------------------------------------------------------------------
(* A session of at most MaxLog well-formed commands, which keeps in log    *)
(* what execute_command did with each of them.                              *)

SessionInput(line) ==
    /\ Len(log) < MaxLog
    /\ Input(line)

ExecuteLogged ==
    /\ Try
    /\ log' = Append(log, [calls |-> calls', raised |-> raised',
                           out |-> output'])

NextSession ==
    \/ \E line \in SessionLines : SessionInput(line)
    \/ ExecuteLogged
    \/ \E line \in SessionLines : Exit(line)

SpecSession ==
    Init /\ [][NextSession]_vars

----------------------------------------------------------------------------
(* The statements checked.  The definitions from here to the first claim   *)
(* are the vocabulary of the statements: the dispatch table as the         *)
(* documentation declares it, and what a printed line tells the user.       *)

\* a and b are the same word up to the case of their letters
SameIgnoringCase(a, b) ==
    /\ Len(a) = Len(b)
    /\ \A i \in 1..Len(a) :
           \/ a[i] = b[i]
           \/ \E k \in DOMAIN LowerAlphabet :
                  {a[i], b[i]} = {LowerAlphabet[k], UpperAlphabet[k]}

NoArgument ==
    {NUMBER_OF_VIDEOS, SHOW_ALL_VIDEOS, PLAY_RANDOM, STOP, PAUSE, CONTINUE,
     SHOW_PLAYING, SHOW_ALL_PLAYLISTS, HELP}

OneArgument ==
    {PLAY, CREATE_PLAYLIST, CLEAR_PLAYLIST, DELETE_PLAYLIST, SHOW_PLAYLIST,
     SEARCH_VIDEOS, SEARCH_VIDEOS_WITH_TAG, ALLOW_VIDEO}

TwoArguments ==
    {ADD_TO_PLAYLIST, REMOVE_FROM_PLAYLIST}

\* the numbers of positional arguments the dispatch table declares for n
Declared(n) ==
    IF n \in NoArgument THEN {0}
    ELSE IF n \in OneArgument THEN {1}
    ELSE IF n \in TwoArguments THEN {2}
    ELSE {1, 2}

\* the player operation that corresponds to command n (HELP has none)
OperationOf(n) ==
    CASE n = NUMBER_OF_VIDEOS -> "number_of_videos"
      [] n = SHOW_ALL_VIDEOS -> "show_all_videos"
      [] n = PLAY -> "play_video"
      [] n = PLAY_RANDOM -> "play_random_video"
      [] n = STOP -> "stop_video"
      [] n = PAUSE -> "pause_video"
      [] n = CONTINUE -> "continue_video"
      [] n = SHOW_PLAYING -> "show_playing"
      [] n = CREATE_PLAYLIST -> "create_playlist"
      [] n = ADD_TO_PLAYLIST -> "add_to_playlist"
      [] n = REMOVE_FROM_PLAYLIST -> "remove_from_playlist"
      [] n = CLEAR_PLAYLIST -> "clear_playlist"
      [] n = DELETE_PLAYLIST -> "delete_playlist"
      [] n = SHOW_PLAYLIST -> "show_playlist"
      [] n = SHOW_ALL_PLAYLISTS -> "show_all_playlists"
      [] n = SEARCH_VIDEOS -> "search_videos"
      [] n = SEARCH_VIDEOS_WITH_TAG -> "search_videos_tag"
      [] n = FLAG_VIDEO -> "flag_video"
      [] n = ALLOW_VIDEO -> "allow_video"
      [] OTHER -> "none"

ArgCount(cmd) ==
    Len(cmd) - 1

\* execute_command has run on a token sequence that names command n
Executed(n) ==
    /\ pc = "input"
    /\ command # <<>>
    /\ SameIgnoringCase(command[1], n)

\* execute_command has run on a non-empty token sequence that names no command
ExecutedUnrecognized ==
    /\ pc = "input"
    /\ command # <<>>
    /\ \A n \in CommandNames : ~SameIgnoringCase(command[1], n)

Call(method, args) ==
    [method |-> method, args |-> args]

Says(out, text) ==
    \E i \in DOMAIN out : out[i].text = text

Mentions(out, word) ==
    \E i \in DOMAIN out : \E j \in DOMAIN out[i].args : out[i].args[j] = word

\* the k-th command of the session called this method
Did(k, method) ==
    /\ log[k].calls # <<>>
    /\ log[k].calls[1].method = method

Arg(k, i) ==
    log[k].calls[1].args[i]

\* video id is flagged when the k-th command runs: FLAG_VIDEO(id) ran before
\* it and no ALLOW_VIDEO(id) since
Flagged(id, k) ==
    \E j \in 1..(k - 1) :
        /\ Did(j, "flag_video") /\ Arg(j, 1) = id
        /\ \A m \in (j + 1)..(k - 1) :
               ~(Did(m, "allow_video") /\ Arg(m, 1) = id)

\* a playlist of this name exists when the k-th command runs: CREATE_PLAYLIST
\* of the name in some letter case ran before it and no DELETE_PLAYLIST since
PlaylistExists(name, k) ==
    \E j \in 1..(k - 1) :
        /\ Did(j, "create_playlist") /\ SameIgnoringCase(Arg(j, 1), name)
        /\ \A m \in (j + 1)..(k - 1) :
               ~(Did(m, "delete_playlist")
                 /\ SameIgnoringCase(Arg(m, 1), name))

C2_show_playing_reports_played_video ==
    \A k \in 1..(Len(log) - 1) :
        ( /\ Did(k, "play_video")
          /\ Arg(k, 1) \in videos
          /\ ~Flagged(Arg(k, 1), k)
          /\ Did(k + 1, "show_playing") )
            => /\ Mentions(log[k + 1].out, Arg(k, 1))
               /\ ~Says(log[k + 1].out, "Current show")

\* C3: PLAY(id) of an id that is no key of the catalog reports an error
\* and plays nothing.
C3_play_unknown_id_is_an_error ==
    \A id \in {tok_1, tok_cat, tok_Cat} :
        (pc = "input" /\ calls = <<Call("play_video", <<id>>)>>
            /\ id \notin videos)
            => /\ output # <<>>
               /\ ~Says(output, "{} Video is Playing")

\* C4: PAUSE while no video is loaded (no command has run yet, or STOP has
\* just run) reports an error rather than a pause.
C4_pause_when_stopped_is_an_error ==
    \A k \in 1..Len(log) :
        (Did(k, "pause_video") /\ (k = 1 \/ Did(k - 1, "stop_video")))
            => ~Says(log[k].out, "Video Paused")

\* C5: once CREATE_PLAYLIST(n) has succeeded and until the playlist is
\* deleted, CREATE_PLAYLIST(m) with m equal to n up to letter case fails.
C5_duplicate_playlist_name_fails ==
    \A k \in 1..Len(log) :
        (Did(k, "create_playlist") /\ PlaylistExists(Arg(k, 1), k))
            => ~Says(log[k].out, "Playlist created {}")

C7_flagged_video_is_not_played ==
    \A k \in 1..Len(log) :
        (Did(k, "play_video") /\ Arg(k, 1) \in videos
            /\ Flagged(Arg(k, 1), k))
            => ~Says(log[k].out, "{} Video is Playing")

\* the command that has just run ended in a usage error, or named a video id
\* that is no key of the catalog
Failed ==
    \/ raised
    \/ /\ calls # <<>>
       /\ calls[1].method \in {"play_video", "flag_video", "allow_video"}
       /\ calls[1].args[1] \notin videos
    \/ /\ calls # <<>>
       /\ calls[1].method \in {"add_to_playlist", "remove_from_playlist"}
       /\ calls[1].args[2] \notin videos

\* C8: a command that fails leaves the catalog and every attribute of the
\* player as they were.
C8_failed_command_changes_nothing ==
    [][(pc = "execute" /\ Failed') => (player' = player /\ videos' = videos)]_vars

C10_dispatch_exact_and_case_insensitive ==
    \A n \in CommandNames :
        (Executed(n) /\ ArgCount(command) \in Declared(n))
            => /\ ~raised
               /\ IF n = HELP
                  THEN calls = <<>> /\ output = <<Line(help_text, <<>>)>>
                  ELSE calls = <<Call(OperationOf(n), Tail(command))>>

\* C10, reached: add_to_playlist cat 1, typed in lower case, has called
\* add_to_playlist
\* with the name first and the id second
C10_witness ==
    /\ pc = "input"
    /\ command = <<word_add_to_playlist, tok_cat, tok_1>>
    /\ ~raised
    /\ calls = <<Call("add_to_playlist", <<tok_cat, tok_1>>)>>

====
